---- MODULE Spec2Model ----
(***************************************************************************)
(* A model of the matching and reputation engine of the event staffing     *)
(* portal: the review eligibility gate (User.can_leave_review_for), the    *)
(* two review views that call it, the job / application operations that    *)
(* produce the data the gate reads, and the reputation score.              *)
(***************************************************************************)
EXTENDS Integers, Sequences, FiniteSets, Bags, TLC

(***************************************************************************)
(* Universes and bounds                                                    *)
(***************************************************************************)
Users == {"u1", "u2"}
Jobs == {"j1", "j2"}

\* the users who post jobs in the workflow specification (any user may apply)
Posters == {"u1"}

\* the jobs the review workflow of Spec runs on
WorkflowJobs == {"j1"}
NoUser == "nobody"

\* concurrent review requests (workers serving leave_review / quick_review)
MaxRequests == 2

\* rows the review table may hold in the model
MaxReviews == 4

\* Job.required_workers values offered by the job form
MaxWorkers == 1

JobStatus == {"draft", "published", "in_progress", "completed", "cancelled"}
AppStatus == {"pending", "under_review", "accepted", "rejected", "withdrawn"}
NoApp == "none"

\* JobReview.rating validators: MinValueValidator(1), MaxValueValidator(5)
MinRating == 1
MaxRating == 5
Ratings == MinRating..MaxRating

\* rating submitted through the review forms in the request workflow (the
\* workflow never reads a stored rating)
FormRatings == {MaxRating}

(***************************************************************************)
(* Text: a string is a sequence of one-character strings                   *)
(***************************************************************************)
LowerLetters ==
    <<"a", "b", "c", "d", "e", "f", "g", "h", "i", "j", "k", "l", "m", "n", "o", "p", "q", "r", "s", "t", "u", "v", "w", "x", "y", "z">>
UpperLetters ==
    <<"A", "B", "C", "D", "E", "F", "G", "H", "I", "J", "K", "L", "M", "N", "O", "P", "Q", "R", "S", "T", "U", "V", "W", "X", "Y", "Z">>

IndexIn(c, letters) == CHOOSE i \in 1..Len(letters) : letters[i] = c
IsUpper(c) == \E i \in 1..Len(UpperLetters) : UpperLetters[i] = c
IsLower(c) == \E i \in 1..Len(LowerLetters) : LowerLetters[i] = c
IsLetter(c) == IsUpper(c) \/ IsLower(c)
ToLower(c) == IF IsUpper(c) THEN LowerLetters[IndexIn(c, UpperLetters)] ELSE c
ToUpper(c) == IF IsLower(c) THEN UpperLetters[IndexIn(c, LowerLetters)] ELSE c

\* str.lower()
RECURSIVE Lower(_)
Lower(s) == IF s = <<>> THEN <<>> ELSE <<ToLower(Head(s))>> \o Lower(Tail(s))

\* str.title(): the first letter of every run of letters in upper case, the
\* other letters in lower case
Title(s) ==
    [i \in 1..Len(s) |->
        IF i = 1 \/ ~IsLetter(s[i - 1]) THEN ToUpper(s[i]) ELSE ToLower(s[i])]

\* str.replace('_', ' ')
ReplaceUnderscores(s) == [i \in 1..Len(s) |-> IF s[i] = "_" THEN " " ELSE s[i]]

\* Python's `keyword in text`
Contains(text, keyword) ==
    LET n == Len(keyword)
        first == keyword[1]
    IN  \E i \in 1..(Len(text) - n + 1) :
            /\ text[i] = first
            /\ SubSeq(text, i, i + n - 1) = keyword

Space == <<" ">>

(***************************************************************************)
(* The skill lexicon of auto_detect_skills                                 *)
(***************************************************************************)
Cat_photography == <<"p", "h", "o", "t", "o", "g", "r", "a", "p", "h", "y">>
Cat_event_management == <<"e", "v", "e", "n", "t", "_", "m", "a", "n", "a", "g", "e", "m", "e", "n", "t">>
Cat_customer_service == <<"c", "u", "s", "t", "o", "m", "e", "r", "_", "s", "e", "r", "v", "i", "c", "e">>
Cat_technical_support == <<"t", "e", "c", "h", "n", "i", "c", "a", "l", "_", "s", "u", "p", "p", "o", "r", "t">>
Cat_sales == <<"s", "a", "l", "e", "s">>
Cat_security == <<"s", "e", "c", "u", "r", "i", "t", "y">>
Cat_catering == <<"c", "a", "t", "e", "r", "i", "n", "g">>
Cat_decoration == <<"d", "e", "c", "o", "r", "a", "t", "i", "o", "n">>
Cat_transportation == <<"t", "r", "a", "n", "s", "p", "o", "r", "t", "a", "t", "i", "o", "n">>
Cat_communication == <<"c", "o", "m", "m", "u", "n", "i", "c", "a", "t", "i", "o", "n">>

SkillCategories ==
    {Cat_photography,
     Cat_event_management,
     Cat_customer_service,
     Cat_technical_support,
     Cat_sales,
     Cat_security,
     Cat_catering,
     Cat_decoration,
     Cat_transportation,
     Cat_communication}

\* skill_keywords[category]: the trigger keywords of the category
skill_keywords(c) ==
    CASE
      c = Cat_photography ->
        {<<"p", "h", "o", "t", "o">>,
         <<"c", "a", "m", "e", "r", "a">>,
         <<"s", "h", "o", "o", "t">>,
         <<"p", "h", "o", "t", "o", "g", "r", "a", "p", "h", "e", "r">>}
   []
      c = Cat_event_management ->
        {<<"m", "a", "n", "a", "g", "e">>,
         <<"o", "r", "g", "a", "n", "i", "z", "e">>,
         <<"c", "o", "o", "r", "d", "i", "n", "a", "t", "e">>,
         <<"p", "l", "a", "n", "n", "i", "n", "g">>}
   []
      c = Cat_customer_service ->
        {<<"c", "u", "s", "t", "o", "m", "e", "r">>,
         <<"s", "e", "r", "v", "i", "c", "e">>,
         <<"r", "e", "c", "e", "p", "t", "i", "o", "n">>,
         <<"f", "r", "o", "n", "t", " ", "d", "e", "s", "k">>}
   []
      c = Cat_technical_support ->
        {<<"t", "e", "c", "h", "n", "i", "c", "a", "l">>,
         <<"t", "e", "c", "h">>,
         <<"c", "o", "m", "p", "u", "t", "e", "r">>,
         <<"i", "t">>,
         <<"s", "o", "u", "n", "d">>}
   []
      c = Cat_sales ->
        {<<"s", "a", "l", "e", "s">>,
         <<"s", "e", "l", "l">>,
         <<"m", "a", "r", "k", "e", "t", "i", "n", "g">>,
         <<"p", "r", "o", "m", "o", "t", "i", "o", "n">>}
   []
      c = Cat_security ->
        {<<"s", "e", "c", "u", "r", "i", "t", "y">>,
         <<"g", "u", "a", "r", "d">>,
         <<"s", "a", "f", "e", "t", "y">>}
   []
      c = Cat_catering ->
        {<<"f", "o", "o", "d">>,
         <<"c", "a", "t", "e", "r", "i", "n", "g">>,
         <<"k", "i", "t", "c", "h", "e", "n">>,
         <<"s", "e", "r", "v", "e">>}
   []
      c = Cat_decoration ->
        {<<"d", "e", "c", "o", "r">>,
         <<"d", "e", "c", "o", "r", "a", "t", "i", "o", "n">>,
         <<"d", "e", "s", "i", "g", "n">>,
         <<"s", "e", "t", "u", "p">>}
   []
      c = Cat_transportation ->
        {<<"d", "r", "i", "v", "e", "r">>,
         <<"t", "r", "a", "n", "s", "p", "o", "r", "t">>,
         <<"d", "e", "l", "i", "v", "e", "r", "y">>}
   []
      c = Cat_communication ->
        {<<"p", "r", "e", "s", "e", "n", "t", "e", "r">>,
         <<"m", "c">>,
         <<"a", "n", "c", "h", "o", "r">>,
         <<"s", "p", "e", "a", "k", "i", "n", "g">>}

(***************************************************************************)
(* Sample texts                                                            *)
(***************************************************************************)
TitlePhoto ==
    <<"W", "e", "d", "d", "i", "n", "g", " ", "P", "h", "o", "t", "o", " ", "S", "h", "o", "o", "t">>
TitleSecurity ==
    <<"S", "e", "c", "u", "r", "i", "t", "y", " ", "G", "u", "a", "r", "d">>
TitleStage ==
    <<"S", "t", "a", "g", "e", " ", "H", "e", "l", "p">>
DescFood ==
    <<"S", "e", "r", "v", "e", " ", "f", "o", "o", "d">>
DescPlain ==
    <<"A", "l", "l", " ", "d", "a", "y">>
ExperienceMC ==
    <<"M", "C", " ", "a", "n", "d", " ", "a", "n", "c", "h", "o", "r">>
JobInMumbai ==
    <<"M", "u", "m", "b", "a", "i">>
JobInDelhi ==
    <<"D", "e", "l", "h", "i">>
LocationMumbai ==
    <<"M", "u", "m", "b", "a", "i", ",", " ", "M", "a", "h", "a", "r", "a", "s", "h", "t", "r", "a">>
SkillPhotography ==
    <<"P", "h", "o", "t", "o", "g", "r", "a", "p", "h", "y">>
SkillFoodService ==
    <<"F", "o", "o", "d", " ", "S", "e", "r", "v", "i", "c", "e">>
EmptyText == <<>>

\* `x or ''` of a text field that may hold None
NoneText == <<"None">>

\* formatting the value as it is, without `or ''`
KeepNone(x) == x

OrEmpty(x) == IF x = NoneText THEN EmptyText ELSE x

VARIABLES
    jobPoster,        \* Job.poster per job; NoUser while the job row does not exist
    jobStatus,        \* Job.status
    requiredWorkers,  \* Job.required_workers
    apps,             \* JobApplication.status per (job, volunteer); NoApp if no row
    reviews,          \* JobReview rows: [n, job, reviewer, reviewee, rating]
    req,              \* the bag of review requests that passed the gate and have not
                      \* answered yet: [view, actor, target, job, allowed]
    isVerified,       \* User.is_verified
    filled,           \* per user: the profile fields that hold a non-empty value
    jobsCompleted,    \* UserProfile.jobs_completed of the user's profile row
    jobTitle,         \* Job.title
    jobDescription,   \* Job.description
    appExperience,    \* JobApplication.relevant_experience per (job, volunteer)
    userLocation,     \* User.location
    jobSkills,        \* Job.required_skills, as Skill names
    jobEventDay,      \* Job.event_date, in days from today
    jobUrgent,        \* Job.is_urgent
    jobCreatedAt,     \* Job.created_at, as the rank of the creation time
    jobLocation,      \* Job.location
    jobCategory,      \* Job.category
    userSkills,       \* User.skills, as Skill names
    skillRows,        \* the names of the Skill rows
    infer,            \* per invocation of auto_detect_skills that runs step by
                      \* step: its position and its local variables
    home,             \* per user: the home request in progress, its position
                      \* and its local variables
    helpfulRows,      \* ReviewHelpful rows: <<review, user>>
    helpfulCount,     \* JobReview.helpful_count per review
    marking,          \* per mark_review_helpful request that runs step by step:
                      \* its position and its local variables
    lastCall          \* the engine operation called last, and what it returned

workflowVars == <<jobPoster, jobStatus, requiredWorkers, apps, reviews, req>>
profileVars == <<isVerified, filled, jobsCompleted>>
catalogVars == <<jobTitle, jobDescription, appExperience, userLocation, jobSkills,
                 jobEventDay, jobUrgent, jobCreatedAt, jobLocation, jobCategory>>
skillVars == <<userSkills, skillRows>>
pageVars == <<home, helpfulRows, helpfulCount, marking>>
vars == <<workflowVars, profileVars, catalogVars, skillVars, infer, pageVars, lastCall>>

(***************************************************************************)
(* Store queries                                                           *)
(***************************************************************************)
JobExists(job) == jobPoster[job] # NoUser

\* JobApplication.objects.filter(job=job, volunteer=v, status='accepted').exists()
AcceptedApplicationExists(job, v) == apps[<<job, v>>] = "accepted"

\* JobReview.objects.filter(job=job, reviewer=a, reviewee=b)
ReviewsFor(job, a, b) ==
    {x \in reviews : x.job = job /\ x.reviewer = a /\ x.reviewee = b}

\* a uniqueness check that forgets the direction of the review
ExistingReviewEitherDirection(self, user, job) ==
    ReviewsFor(job, self, user) # {} \/ ReviewsFor(job, user, self) # {}

\* JobReview.objects.filter(job=job, reviewer=self, reviewee=user).exists()
ExistingReview(self, user, job) == ReviewsFor(job, self, user) # {}

(***************************************************************************)
(* User.can_leave_review_for                                               *)
(***************************************************************************)
MsgNotWorked == "You haven't worked together on this job"
MsgNotCompleted == "Job must be completed before leaving reviews"
MsgAlready == "You have already reviewed this person for this job"
MsgCan == "Can leave review"

\* a co-participation check that accepts an application of any status
WorkedTogetherAnyStatus(self, user, job) ==
    IF self = jobPoster[job]
    THEN apps[<<job, user>>] # NoApp
    ELSE IF user = jobPoster[job]
         THEN apps[<<job, self>>] # NoApp
         ELSE FALSE

\* the if / elif / else that sets worked_together
WorkedTogether(self, user, job) ==
    IF self = jobPoster[job]
    THEN AcceptedApplicationExists(job, user)
    ELSE IF user = jobPoster[job]
         THEN AcceptedApplicationExists(job, self)
         ELSE FALSE

\* the checks with uniqueness looked at before completion
can_leave_review_for_unique_first(self, user, job) ==
    IF ~WorkedTogether(self, user, job)
    THEN <<FALSE, MsgNotWorked>>
    ELSE IF ExistingReview(self, user, job)
         THEN <<FALSE, MsgAlready>>
         ELSE IF jobStatus[job] # "completed"
              THEN <<FALSE, MsgNotCompleted>>
              ELSE <<TRUE, MsgCan>>

can_leave_review_for(self, user, job) ==
    IF ~WorkedTogether(self, user, job)
    THEN <<FALSE, MsgNotWorked>>
    ELSE IF jobStatus[job] # "completed"
         THEN <<FALSE, MsgNotCompleted>>
         ELSE IF ExistingReview(self, user, job)
              THEN <<FALSE, MsgAlready>>
              ELSE <<TRUE, MsgCan>>

(***************************************************************************)
(* Job properties                                                          *)
(***************************************************************************)
selected_workers_count(job) ==
    Cardinality({v \in Users : apps[<<job, v>>] = "accepted"})

Max(a, b) == IF a >= b THEN a ELSE b
Min(a, b) == IF a <= b THEN a ELSE b

remaining_positions(job) ==
    Max(0, requiredWorkers[job] - selected_workers_count(job))

(***************************************************************************)
(* The review table: JobReview.Meta.unique_together and save()             *)
(***************************************************************************)
\* a new row; n tells apart rows of one (job, reviewer, reviewee) triple, as the
\* primary key does in the table
NewReview(job, reviewer, reviewee, rating) ==
    [n |-> Cardinality(ReviewsFor(job, reviewer, reviewee)) + 1, job |-> job,
     reviewer |-> reviewer, reviewee |-> reviewee, rating |-> rating]

\* a review table without the unique_together constraint
JobReviewSaveNoConstraint(rows, row) == rows \cup {row}

\* INSERT under unique_together = ('job', 'reviewer', 'reviewee'): a row whose
\* triple is already stored raises IntegrityError and nothing is stored
JobReviewSave(rows, row) ==
    IF \E x \in rows : x.job = row.job /\ x.reviewer = row.reviewer
                       /\ x.reviewee = row.reviewee
    THEN rows
    ELSE rows \cup {row}

(***************************************************************************)
(* Initial state: empty tables, every request worker idle                  *)
(***************************************************************************)
\* what a call gives back: a value, or the exception it raises
Ok(v) == [error |-> "none", value |-> v]
Raise(e) == [error |-> e, value |-> 0]
AttributeError == "AttributeError"

NoCall == [op |-> "none", user |-> NoUser, result |-> Raise("no call")]

JobRank(j) == IF j = "j1" THEN 1 ELSE 2

\* Job.location of the two jobs
JobLocationOf(j) == IF j = "j1" THEN JobInMumbai ELSE JobInDelhi

\* invocations of auto_detect_skills that can run at the same time
MaxInvocations == 2
Invocations == 1..MaxInvocations

\* an invocation slot in which auto_detect_skills is not running
IdleInvocation == [pc |-> "idle", user |-> NoUser, detected |-> {}, todo |-> {},
                   skill |-> EmptyText]

\* descriptive fields of the rows in the specifications that never read them
\* Job.category of the two jobs
JobCategoryOf(j) == IF j = "j1" THEN "c1" ELSE "c2"

\* the reviews that can be marked helpful
HelpfulReviews == {"r1"}

\* requests of mark_review_helpful that can run at the same time
MaxMarking == 2
Markings == 1..MaxMarking

IdleHome == [pc |-> "idle", narrowed |-> FALSE, inferred |-> FALSE]
IdleMarking == [pc |-> "idle", user |-> NoUser, review |-> "none",
                created |-> FALSE, count |-> 0]

\* nobody is on the home page, no review has a helpful vote
QuietPages ==
    /\ home = [u \in Users |-> IdleHome]
    /\ helpfulRows = {}
    /\ helpfulCount = [r \in HelpfulReviews |-> 0]
    /\ marking = [i \in Markings |-> IdleMarking]

PlainCatalog ==
    /\ jobTitle = [j \in Jobs |-> TitleStage]
    /\ jobDescription = [j \in Jobs |-> DescPlain]
    /\ appExperience = [p \in Jobs \X Users |-> EmptyText]
    /\ userLocation = [u \in Users |-> EmptyText]
    /\ jobSkills = [j \in Jobs |-> {}]
    /\ jobEventDay = [j \in Jobs |-> 1]
    /\ jobUrgent = [j \in Jobs |-> FALSE]
    /\ jobCreatedAt = [j \in Jobs |-> JobRank(j)]
    /\ jobLocation = [j \in Jobs |-> JobLocationOf(j)]
    /\ jobCategory = [j \in Jobs |-> JobCategoryOf(j)]
    /\ userSkills = [u \in Users |-> {}]
    /\ skillRows = {}
    /\ infer = [i \in Invocations |-> IdleInvocation]
    /\ QuietPages

Init ==
    /\ jobPoster = [j \in Jobs |-> NoUser]
    /\ jobStatus = [j \in Jobs |-> "draft"]
    /\ requiredWorkers = [j \in Jobs |-> 1]
    /\ apps = [p \in Jobs \X Users |-> NoApp]
    /\ reviews = {}
    /\ req = EmptyBag
    /\ isVerified = [u \in Users |-> FALSE]
    /\ filled = [u \in Users |-> {}]
    /\ jobsCompleted = [u \in Users |-> 0]
    /\ PlainCatalog
    /\ lastCall = NoCall

(***************************************************************************)
(* Job and application operations                                          *)
(***************************************************************************)
\* JobCreateView.form_valid: poster = request.user, status keeps its default
JobCreate(u, job, workers) ==
    /\ ~JobExists(job)
    /\ jobPoster' = [jobPoster EXCEPT ![job] = u]
    /\ jobStatus' = [jobStatus EXCEPT ![job] = "draft"]
    /\ requiredWorkers' = [requiredWorkers EXCEPT ![job] = workers]
    /\ UNCHANGED <<apps, reviews, req, profileVars, catalogVars, skillVars, infer, pageVars, lastCall>>

\* JobAdmin: the status field of the change form and the mark_as_* actions
JobAdminSetStatus(job, s) ==
    /\ JobExists(job)
    /\ jobStatus[job] # s
    /\ jobStatus' = [jobStatus EXCEPT ![job] = s]
    /\ UNCHANGED <<jobPoster, requiredWorkers, apps, reviews, req, profileVars, catalogVars, skillVars, infer, pageVars, lastCall>>

\* job_apply, POST with a valid form; expired is Job.is_expired at request time
job_apply(u, job, expired) ==
    /\ JobExists(job)
    /\ jobStatus[job] = "published"
    /\ apps[<<job, u>>] = NoApp
    /\ remaining_positions(job) > 0
    /\ ~expired
    /\ apps' = [apps EXCEPT ![<<job, u>>] = "pending"]
    /\ UNCHANGED <<jobPoster, jobStatus, requiredWorkers, reviews, req, profileVars, catalogVars, skillVars, infer, pageVars, lastCall>>

ActionStatus(action) ==
    CASE action = "accept" -> "accepted"
      [] action = "reject" -> "rejected"
      [] action = "review" -> "under_review"

\* application_action by the job's poster (or an admin user)
application_action(job, v, action) ==
    /\ JobExists(job)
    /\ apps[<<job, v>>] # NoApp
    /\ apps[<<job, v>>] # ActionStatus(action)
    /\ apps' = [apps EXCEPT ![<<job, v>>] = ActionStatus(action)]
    /\ UNCHANGED <<jobPoster, jobStatus, requiredWorkers, reviews, req, profileVars, catalogVars, skillVars, infer, pageVars, lastCall>>

\* bulk_application_action by the job's poster (or an admin user):
\* applications.update(status=...) on the selected applications of the job
bulk_application_action(job, selected, action) ==
    /\ JobExists(job)
    /\ selected # {}
    /\ \A v \in selected : apps[<<job, v>>] # NoApp
    /\ \E v \in selected : apps[<<job, v>>] # ActionStatus(action)
    /\ apps' = [p \in Jobs \X Users |->
                  IF p[1] = job /\ p[2] \in selected
                  THEN ActionStatus(action) ELSE apps[p]]
    /\ UNCHANGED <<jobPoster, jobStatus, requiredWorkers, reviews, req, profileVars, catalogVars, skillVars, infer, pageVars, lastCall>>

\* JobApplicationAdmin change form: the only writer of status 'withdrawn'
ApplicationAdminWithdraw(job, v) ==
    /\ JobExists(job)
    /\ apps[<<job, v>>] \notin {NoApp, "withdrawn"}
    /\ apps' = [apps EXCEPT ![<<job, v>>] = "withdrawn"]
    /\ UNCHANGED <<jobPoster, jobStatus, requiredWorkers, reviews, req, profileVars, catalogVars, skillVars, infer, pageVars, lastCall>>

(***************************************************************************)
(* leave_review and quick_review                                           *)
(***************************************************************************)
\* a view that forgets the early return on a denied decision
ViewProceedsAlways(decision) == TRUE

\* `if not can_review: messages.error(...); return redirect(...)`
ViewProceeds(decision) == decision[1]

\* first half of either view: load job and reviewee, ask the gate
ReviewGate(view, actor, target, job) ==
    /\ BagCardinality(req) < MaxRequests
    /\ JobExists(job)
    /\ LET decision == can_leave_review_for(actor, target, job) IN
         IF ViewProceeds(decision)
         THEN req' = req (+) SetToBag({[view |-> view, actor |-> actor,
                                         target |-> target, job |-> job,
                                         allowed |-> decision[1]]})
         ELSE UNCHANGED req
    /\ UNCHANGED <<jobPoster, jobStatus, requiredWorkers, apps, reviews, profileVars, catalogVars, skillVars, infer, pageVars, lastCall>>

\* second half, POST with a valid form: the request r stores its review
ReviewSave(r, view, rating) ==
    /\ BagIn(r, req)
    /\ r.view = view
    /\ Cardinality(reviews) < MaxReviews
    /\ reviews' = JobReviewSave(reviews, NewReview(r.job, r.actor, r.target, rating))
    /\ req' = req (-) SetToBag({r})
    /\ UNCHANGED <<jobPoster, jobStatus, requiredWorkers, apps, profileVars, catalogVars, skillVars, infer, pageVars, lastCall>>

\* leave_review, POST with a valid JobReviewForm
leave_review_save(r, rating) == ReviewSave(r, "leave_review", rating)

\* quick_review, POST with a valid QuickReviewForm
quick_review_save(r, rating) == ReviewSave(r, "quick_review", rating)

\* GET, or POST with an invalid form: the form is rendered, nothing is saved
ReviewRender(r) ==
    /\ BagIn(r, req)
    /\ req' = req (-) SetToBag({r})
    /\ UNCHANGED <<jobPoster, jobStatus, requiredWorkers, apps, reviews, profileVars, catalogVars, skillVars, infer, pageVars, lastCall>>

ReviewViews == {"leave_review", "quick_review"}

Next ==
    \/ \E u \in Posters, j \in WorkflowJobs, w \in 1..MaxWorkers : JobCreate(u, j, w)
    \/ \E j \in WorkflowJobs, s \in JobStatus : JobAdminSetStatus(j, s)
    \/ \E u \in Users, j \in WorkflowJobs, e \in BOOLEAN : job_apply(u, j, e)
    \/ \E j \in WorkflowJobs, v \in Users, a \in {"accept", "reject", "review"} :
          application_action(j, v, a)
    \/ \E j \in WorkflowJobs, selected \in SUBSET Users, a \in {"accept", "reject", "review"} :
          bulk_application_action(j, selected, a)
    \/ \E j \in WorkflowJobs, v \in Users : ApplicationAdminWithdraw(j, v)
    \/ \E w \in ReviewViews, a \in Users, t \in Users, j \in WorkflowJobs :
          ReviewGate(w, a, t, j)
    \/ \E r \in BagToSet(req), x \in FormRatings : leave_review_save(r, x)
    \/ \E r \in BagToSet(req), x \in FormRatings : quick_review_save(r, x)
    \/ \E r \in BagToSet(req) : ReviewRender(r)

Spec == Init /\ [][Next]_vars

(***************************************************************************)
(* Reputation score (User.reputation_score and what it reads)              *)
(***************************************************************************)
\* the users whose reputation is computed, and the reviewer of their jobs
ScoreUsers == {"u1"}
ScoreReviewer == "u2"

\* reviews one user receives in the scoring model
MaxReceived == 3

\* values of UserProfile.jobs_completed tried (0.5 points each, capped at 5)
JobsCompletedSamples == {0, 1, 10, 11}

\* fields_to_check of User._calculate_profile_completeness
ProfileFields ==
    {"first_name", "last_name", "bio", "location", "phone_number", "profile_picture"}

\* JobReview.objects.filter(reviewee=u)
ReceivedReviews(u) == {x \in reviews : x.reviewee = u}

RECURSIVE SumRatings(_)
SumRatings(rows) ==
    IF rows = {} THEN 0
    ELSE LET x == CHOOSE y \in rows : TRUE IN x.rating + SumRatings(rows \ {x})

\* a rounding that cuts the fraction off instead of rounding to nearest
RoundDown(n, d) == n \div d

\* Python's round(): n / d rounded to the nearest integer, ties to even
\* (n >= 0, d > 0)
RoundHalfEven(n, d) ==
    LET q == n \div d
        r == n % d
    IN  IF 2 * r < d THEN q
        ELSE IF 2 * r > d THEN q + 1
        ELSE IF q % 2 = 0 THEN q ELSE q + 1

\* User.total_reviews_count
total_reviews_count(u) == Cardinality(ReceivedReviews(u))

\* User.average_rating, in tenths: round(Avg('rating'), 1), and 0.0 when no
\* review exists
average_rating(u) ==
    IF ReceivedReviews(u) # {}
    THEN RoundHalfEven(10 * SumRatings(ReceivedReviews(u)), total_reviews_count(u))
    ELSE 0

\* the attributes a User instance has that the score reads; jobs_completed is
\* a field of the UserProfile row reached through user.profile
UserObject(u) ==
    [first_name |-> "first_name" \in filled[u],
     last_name |-> "last_name" \in filled[u],
     bio |-> "bio" \in filled[u],
     location |-> "location" \in filled[u],
     phone_number |-> "phone_number" \in filled[u],
     profile_picture |-> "profile_picture" \in filled[u],
     is_verified |-> isVerified[u],
     profile |-> [jobs_completed |-> jobsCompleted[u]]]

\* (average_rating / 5) * 50, in points: a tenth of a star is one point
rating_score(u) == average_rating(u)

\* min(total_reviews_count * 2, 20)
review_count_score(u) == Min(total_reviews_count(u) * 2, 20)

\* 15 if is_verified else 0
verification_score(u) == IF UserObject(u).is_verified THEN 15 ELSE 0

\* User._calculate_profile_completeness: the number of truthy checked fields
\* (the method divides it by 6)
completed_fields(u) == Cardinality({f \in ProfileFields : UserObject(u)[f]})

\* _calculate_profile_completeness() * 10, in sixths of a point
profile_score6(u) == 10 * completed_fields(u)

\* min(self.jobs_completed * 0.5, 5), in sixths of a point; the attribute is
\* looked up on the User instance
activity_score6(u) ==
    IF "jobs_completed" \in DOMAIN UserObject(u)
    THEN Ok(Min(3 * UserObject(u).jobs_completed, 30))
    ELSE Raise(AttributeError)

\* User.reputation_score: min(round(total_score), 100)
reputation_score(u) ==
    LET activity == activity_score6(u) IN
    IF activity.error # "none" THEN activity
    ELSE Ok(Min(RoundHalfEven(6 * rating_score(u) + 6 * review_count_score(u)
                              + 6 * verification_score(u) + profile_score6(u)
                              + activity.value, 6), 100))

\* User.reputation_level: the 'level' entry of the returned dict
reputation_level(u) ==
    LET score == reputation_score(u) IN
    IF score.error # "none" THEN score
    ELSE IF score.value >= 90 THEN Ok("Elite")
    ELSE IF score.value >= 75 THEN Ok("Excellent")
    ELSE IF score.value >= 60 THEN Ok("Good")
    ELSE IF score.value >= 40 THEN Ok("Fair")
    ELSE Ok("New")

\* the scoring model starts from a user row whose is_verified flag and
\* profile.jobs_completed counter hold any stored value (no view writes them)
InitScore ==
    /\ jobPoster = [j \in Jobs |-> NoUser]
    /\ jobStatus = [j \in Jobs |-> "draft"]
    /\ requiredWorkers = [j \in Jobs |-> 1]
    /\ apps = [p \in Jobs \X Users |-> NoApp]
    /\ reviews = {}
    /\ req = EmptyBag
    /\ \E b \in BOOLEAN :
          isVerified = [u \in Users |-> IF u \in ScoreUsers THEN b ELSE FALSE]
    /\ filled = [u \in Users |-> {}]
    /\ \E n \in JobsCompletedSamples :
          jobsCompleted = [u \in Users |-> IF u \in ScoreUsers THEN n ELSE 0]
    /\ PlainCatalog
    /\ lastCall = NoCall

\* a review of u is stored (review.save() of a review view): the reviewer
\* rates u for the next completed job of u's history
ReviewReceived(u, rating) ==
    /\ total_reviews_count(u) < MaxReceived
    /\ reviews' = JobReviewSave(reviews,
                     NewReview(total_reviews_count(u) + 1, ScoreReviewer, u, rating))
    /\ UNCHANGED <<jobPoster, jobStatus, requiredWorkers, apps, req, profileVars, catalogVars, skillVars, infer, pageVars, lastCall>>

\* UserProfileForm.save with one field edited: the field takes the submitted
\* value, empty or not
ProfileUpdate(u, field, nonEmpty) ==
    /\ filled' = [filled EXCEPT ![u] =
                     IF nonEmpty THEN @ \cup {field} ELSE @ \ {field}]
    /\ userLocation' = IF field = "location"
                       THEN [userLocation EXCEPT ![u] =
                                IF nonEmpty THEN LocationMumbai ELSE EmptyText]
                       ELSE userLocation
    /\ UNCHANGED <<workflowVars, isVerified, jobsCompleted, jobTitle, jobDescription,
                   appExperience, jobSkills, jobEventDay, jobUrgent, jobCreatedAt,
                   jobLocation, jobCategory,
                   skillVars, infer, pageVars, lastCall>>

\* a read of user.reputation_score
CallReputationScore(u) ==
    /\ lastCall' = [op |-> "reputation_score", user |-> u,
                    result |-> reputation_score(u)]
    /\ UNCHANGED <<workflowVars, profileVars, catalogVars, skillVars, infer, pageVars>>

\* a read of user.reputation_level
CallReputationLevel(u) ==
    /\ lastCall' = [op |-> "reputation_level", user |-> u,
                    result |-> reputation_level(u)]
    /\ UNCHANGED <<workflowVars, profileVars, catalogVars, skillVars, infer, pageVars>>

NextScore ==
    \/ \E u \in ScoreUsers, x \in Ratings : ReviewReceived(u, x)
    \/ \E u \in ScoreUsers, f \in ProfileFields, b \in BOOLEAN : ProfileUpdate(u, f, b)
    \/ \E u \in ScoreUsers : CallReputationScore(u)
    \/ \E u \in ScoreUsers : CallReputationLevel(u)

SpecScore == InitScore /\ [][NextScore]_vars

(***************************************************************************)
(* Review statistics (properties of User)                                  *)
(***************************************************************************)
\* a distribution whose loop stops one rating short: range(1, 5)
rating_distribution_short(u) ==
    [i \in 1..4 |-> Cardinality({x \in ReceivedReviews(u) : x.rating = i})]

\* User.rating_distribution
rating_distribution(u) ==
    [i \in 1..5 |-> Cardinality({x \in ReceivedReviews(u) : x.rating = i})]

\* User.positive_review_percentage, in tenths of a percent:
\* round((positive / total) * 100, 1), and 0 when no review exists
positive_review_percentage(u) ==
    LET total == Cardinality(ReceivedReviews(u))
        positive == Cardinality({x \in ReceivedReviews(u) : x.rating >= 4})
    IN  IF total = 0 THEN 0 ELSE RoundHalfEven(1000 * positive, total)

(***************************************************************************)
(* Skill inference (User.auto_detect_skills)                               *)
(***************************************************************************)
\* f"{app.job.title} {app.job.description} {app.relevant_experience or ''}".lower()
ApplicationText(j, v) ==
    Lower(jobTitle[j] \o Space \o jobDescription[j] \o Space
          \o OrEmpty(appExperience[<<j, v>>]))

\* f"{job.title} {job.description}".lower()
PostedJobText(j) == Lower(jobTitle[j] \o Space \o jobDescription[j])

\* any(keyword in job_text for keyword in keywords)
AnyKeyword(text, c) == \E k \in skill_keywords(c) : Contains(text, k)

\* the applications of the user whatever their status
applications_of_any_status(u) ==
    {j \in Jobs : JobExists(j) /\ apps[<<j, u>>] # NoApp}

\* JobApplication.objects.filter(volunteer=self, status='accepted')
accepted_apps(u) ==
    {j \in Jobs : JobExists(j) /\ apps[<<j, u>>] = "accepted"}

\* Job.objects.filter(poster=self)
posted_jobs(u) == {j \in Jobs : jobPoster[j] = u}

\* the categories one loop adds to detected_skills for the texts it goes
\* through
detected_in(texts) ==
    {c \in SkillCategories : \E text \in texts : AnyKeyword(text, c)}

\* the set detected_skills after both loops
detected_skills(u) ==
    detected_in({ApplicationText(j, u) : j \in accepted_apps(u)}
                \cup {PostedJobText(j) : j \in posted_jobs(u)})

\* skill_name.replace('_', ' ').title()
SkillNameOf(c) == Title(ReplaceUnderscores(c))

\* self.skills.set(...): the inferred skills replace the user's skills
SkillsSet(current, names) == names

\* a switch: a detected skill the user holds is taken away, one the user does
\* not hold is added
SkillsToggle(current, names) == (current \ names) \cup (names \ current)

\* self.skills.add(skill) for every detected skill
SkillsAdd(current, names) == current \cup names

\* Skill.objects.get_or_create(name=...) for every detected skill: a row is
\* created when no row has the name (Skill.name is unique)
GetOrCreateSkills(rows, names) == rows \cup names

\* the names of the skills the loop of lines 126-131 goes through
detected_names(u) == {SkillNameOf(c) : c \in detected_skills(u)}

\* the whole method in one step. It returns None; the record of the call
\* keeps how many skills were detected and how many of them the user did not
\* hold before
auto_detect_skills(u) ==
    LET names == detected_names(u) IN
    /\ skillRows' = GetOrCreateSkills(skillRows, names)
    /\ userSkills' = [userSkills EXCEPT ![u] = SkillsAdd(@, names)]
    /\ lastCall' = [op |-> "auto_detect_skills", user |-> u,
                    result |-> Ok(<<Cardinality(names),
                                    Cardinality(names \ userSkills[u])>>)]
    /\ UNCHANGED <<workflowVars, profileVars, catalogVars, infer, pageVars>>


(***************************************************************************)
(* Job recommendations (User.get_recommended_jobs)                         *)
(***************************************************************************)
\* timezone.now().date(), the day event dates are counted from
Today == 0

\* the `limit` arguments tried: one that cuts the list short, and the 8 that
\* home() passes
Limits == {1, 8}

\* Job.objects.all(): every stored job whatever its status and date
EveryStoredJob == {j \in Jobs : JobExists(j)}

\* Job.objects.filter(status='published', event_date__gte=today)
BaseCandidates ==
    {j \in Jobs : JobExists(j) /\ jobStatus[j] = "published"
                  /\ jobEventDay[j] >= Today}

\* filter(required_skills__in=self.skills.all()): the join with the table of
\* required skills has one row per (job, required skill held by the user), so
\* a job is there once for every skill it shares with the user. A queryset is
\* a bag of jobs
SkillJoin(u, candidates) ==
    [j \in {x \in candidates : jobSkills[x] \cap userSkills[u] # {}} |->
        Cardinality(jobSkills[j] \cap userSkills[u])]

\* the queryset without .distinct()
KeepDuplicates(rows) == rows

\* .distinct()
Distinct(rows) == SetToBag(BagToSet(rows))

\* if self.skills.exists(): filter(required_skills__in=self.skills.all()).distinct()
SkillFiltered(u, candidates) ==
    IF userSkills[u] # {}
    THEN Distinct(SkillJoin(u, candidates))
    ELSE SetToBag(candidates)

\* order_by('-created_at') alone: urgency is not looked at
SortsBeforeByDateOnly(a, b) == jobCreatedAt[a] > jobCreatedAt[b]

\* order_by('-is_urgent', '-created_at'): a sorts before b
SortsBefore(a, b) ==
    \/ jobUrgent[a] /\ ~jobUrgent[b]
    \/ jobUrgent[a] = jobUrgent[b] /\ jobCreatedAt[a] > jobCreatedAt[b]

\* n times the job x
Repeat(x, n) == [i \in 1..n |-> x]

\* the rows of the queryset in the order of order_by; the rows of one job
\* are next to each other
RECURSIVE Ordered(_)
Ordered(rows) ==
    IF DOMAIN rows = {} THEN <<>>
    ELSE LET S == DOMAIN rows
             first == CHOOSE a \in S : \A b \in S \ {a} : SortsBefore(a, b)
         IN  Repeat(first, rows[first])
                 \o Ordered([j \in S \ {first} |-> rows[j]])

\* queryset[:limit]
Take(seq, limit) == SubSeq(seq, 1, Min(limit, Len(seq)))

\* a recommender that keeps the list it returned last and hands it out again
\* to the same user
get_recommended_jobs_cached(u, limit) ==
    IF lastCall.op = "get_recommended_jobs" /\ lastCall.user = u
    THEN lastCall.result
    ELSE IF userLocation[u] # EmptyText
         THEN Raise("NameError")
         ELSE Ok(Take(Ordered(SkillFiltered(u, BaseCandidates)), limit))

\* `if self.location:` enters the branch that builds Q() objects; the name Q
\* is not bound in accounts/models.py (its imports are AbstractUser, models
\* and RegexValidator), so the branch raises NameError
get_recommended_jobs(u, limit) ==
    IF userLocation[u] # EmptyText
    THEN Raise("NameError")
    ELSE Ok(Take(Ordered(SkillFiltered(u, BaseCandidates)), limit))

\* limit=6 of the signature, used by a call that passes no limit
DefaultLimit == 6

get_recommended_jobs_default(u) == get_recommended_jobs(u, DefaultLimit)

(***************************************************************************)
(* The engine operations called on a stored snapshot                       *)
(***************************************************************************)
\* the Skill rows of create_initial_skills that the snapshots hold
InitialSkills == {SkillPhotography, SkillFoodService}

TitleSamples == {TitlePhoto, TitleSecurity}

InitEngine ==
    /\ jobPoster = [j \in Jobs |-> IF j = "j1" THEN "u1" ELSE "u2"]
    /\ \E s \in {"published", "completed"} :
          jobStatus = [j \in Jobs |-> IF j = "j1" THEN s ELSE "published"]
    /\ requiredWorkers = [j \in Jobs |-> 1]
    /\ \E a \in {"pending", "accepted"} :
          apps = [p \in Jobs \X Users |->
                    IF p = <<"j1", "u2">> THEN a
                    ELSE IF p = <<"j2", "u1">> THEN "accepted" ELSE NoApp]
    /\ reviews = IF jobStatus["j1"] = "completed" /\ apps[<<"j1", "u2">>] = "accepted"
                 THEN {[n |-> 1, job |-> "j1", reviewer |-> "u1",
                        reviewee |-> "u2", rating |-> 4]}
                 ELSE {}
    /\ req = EmptyBag
    /\ isVerified = [u \in Users |-> FALSE]
    /\ jobsCompleted = [u \in Users |-> 0]
    /\ \E t \in TitleSamples :
          jobTitle = [j \in Jobs |-> IF j = "j1" THEN t ELSE TitleStage]
    /\ jobDescription = [j \in Jobs |-> IF j = "j1" THEN DescPlain ELSE DescFood]
    /\ appExperience = [p \in Jobs \X Users |->
                          IF p = <<"j1", "u2">> THEN ExperienceMC ELSE EmptyText]
    /\ \E l \in {EmptyText, LocationMumbai} :
          userLocation = [u \in Users |-> IF u = "u1" THEN l ELSE EmptyText]
    /\ filled = [u \in Users |-> IF userLocation[u] # EmptyText
                                  THEN {"location"} ELSE {}]
    /\ jobSkills = [j \in Jobs |-> IF j = "j1" THEN {SkillPhotography} ELSE {}]
    /\ \E d \in {-1, 1} : jobEventDay = [j \in Jobs |-> IF j = "j1" THEN d ELSE 1]
    /\ jobUrgent = [j \in Jobs |-> j = "j2"]
    /\ jobCreatedAt = [j \in Jobs |-> JobRank(j)]
    /\ jobLocation = [j \in Jobs |-> JobLocationOf(j)]
    /\ jobCategory = [j \in Jobs |-> JobCategoryOf(j)]
    /\ infer = [i \in Invocations |-> IdleInvocation]
    /\ QuietPages
    /\ skillRows = InitialSkills
    /\ \E m \in {{}, {SkillFoodService}} :
          userSkills = [u \in Users |-> IF u = "u1" THEN m ELSE {}]
    /\ lastCall = NoCall

\* a call of actor.can_leave_review_for(target, job)
CallCanLeaveReview(actor, target, job) ==
    /\ JobExists(job)
    /\ lastCall' = [op |-> "can_leave_review_for", user |-> actor,
                    result |-> Ok(can_leave_review_for(actor, target, job))]
    /\ UNCHANGED <<workflowVars, profileVars, catalogVars, skillVars, infer, pageVars>>

\* reads of average_rating, total_reviews_count, rating_distribution and
\* positive_review_percentage
CallStatistics(u) ==
    /\ lastCall' = [op |-> "statistics", user |-> u,
                    result |-> Ok(<<average_rating(u), total_reviews_count(u),
                                    rating_distribution(u),
                                    positive_review_percentage(u)>>)]
    /\ UNCHANGED <<workflowVars, profileVars, catalogVars, skillVars, infer, pageVars>>

\* a call of user.get_recommended_jobs(limit)
CallRecommendedJobs(u, limit) ==
    /\ lastCall' = [op |-> "get_recommended_jobs", user |-> u,
                    result |-> get_recommended_jobs(u, limit)]
    /\ UNCHANGED <<workflowVars, profileVars, catalogVars, skillVars, infer, pageVars>>

NextEngine ==
    \/ \E a \in Users, t \in Users, j \in Jobs : CallCanLeaveReview(a, t, j)
    \/ \E u \in Users : CallReputationScore(u)
    \/ \E u \in Users : CallReputationLevel(u)
    \/ \E u \in Users : CallStatistics(u)
    \/ \E u \in Users, n \in Limits : CallRecommendedJobs(u, n)
    \/ \E u \in Users : auto_detect_skills(u)

SpecEngine == InitEngine /\ [][NextEngine]_vars

(***************************************************************************)
(* The review statistics read while reviews arrive                         *)
(***************************************************************************)
InitStats ==
    /\ jobPoster = [j \in Jobs |-> NoUser]
    /\ jobStatus = [j \in Jobs |-> "draft"]
    /\ requiredWorkers = [j \in Jobs |-> 1]
    /\ apps = [p \in Jobs \X Users |-> NoApp]
    /\ reviews = {}
    /\ req = EmptyBag
    /\ isVerified = [u \in Users |-> FALSE]
    /\ filled = [u \in Users |-> {}]
    /\ jobsCompleted = [u \in Users |-> 0]
    /\ PlainCatalog
    /\ lastCall = NoCall

NextStats ==
    \/ \E u \in ScoreUsers, x \in Ratings : ReviewReceived(u, x)
    \/ \E u \in Users : CallStatistics(u)

SpecStats == InitStats /\ [][NextStats]_vars

(***************************************************************************)
(* Skill inference while applications and jobs change                      *)
(***************************************************************************)
\* JobDeleteView: the job row is deleted, and with it (on_delete=CASCADE) its
\* applications and reviews
JobDelete(job) ==
    /\ JobExists(job)
    /\ jobPoster' = [jobPoster EXCEPT ![job] = NoUser]
    /\ jobStatus' = [jobStatus EXCEPT ![job] = "draft"]
    /\ apps' = [p \in Jobs \X Users |-> IF p[1] = job THEN NoApp ELSE apps[p]]
    /\ reviews' = {x \in reviews : x.job # job}
    /\ UNCHANGED <<requiredWorkers, req, profileVars, catalogVars, skillVars, infer, pageVars, lastCall>>

\* relevant_experience as stored or handed over: None, '' or a text
ExperienceSamples == {NoneText, EmptyText, ExperienceMC}

\* one job of u1 with a pending application of u2; u1 may have picked a skill
\* by hand
InitSkills ==
    /\ jobPoster = [j \in Jobs |-> IF j = "j1" THEN "u1" ELSE NoUser]
    /\ jobStatus = [j \in Jobs |-> IF j = "j1" THEN "published" ELSE "draft"]
    /\ requiredWorkers = [j \in Jobs |-> 1]
    /\ apps = [p \in Jobs \X Users |-> IF p = <<"j1", "u2">> THEN "pending" ELSE NoApp]
    /\ reviews = {}
    /\ req = EmptyBag
    /\ isVerified = [u \in Users |-> FALSE]
    /\ filled = [u \in Users |-> {}]
    /\ jobsCompleted = [u \in Users |-> 0]
    /\ \E t \in TitleSamples :
          jobTitle = [j \in Jobs |-> IF j = "j1" THEN t ELSE TitleStage]
    /\ jobDescription = [j \in Jobs |-> DescPlain]
    /\ \E x \in ExperienceSamples :
          appExperience = [p \in Jobs \X Users |->
                             IF p = <<"j1", "u2">> THEN x ELSE EmptyText]
    /\ userLocation = [u \in Users |-> EmptyText]
    /\ jobSkills = [j \in Jobs |-> {}]
    /\ jobEventDay = [j \in Jobs |-> 1]
    /\ jobUrgent = [j \in Jobs |-> FALSE]
    /\ jobCreatedAt = [j \in Jobs |-> JobRank(j)]
    /\ jobLocation = [j \in Jobs |-> JobLocationOf(j)]
    /\ jobCategory = [j \in Jobs |-> JobCategoryOf(j)]
    /\ skillRows = InitialSkills
    /\ \E m \in {{}, {SkillFoodService}} :
          userSkills = [u \in Users |-> IF u = "u1" THEN m ELSE {}]
    /\ infer = [i \in Invocations |-> IdleInvocation]
    /\ QuietPages
    /\ lastCall = NoCall

NextSkills ==
    \/ \E u \in Users : auto_detect_skills(u)
    \/ \E j \in WorkflowJobs, v \in Users, a \in {"accept", "reject", "review"} :
          application_action(j, v, a)
    \/ \E j \in WorkflowJobs, v \in Users : ApplicationAdminWithdraw(j, v)
    \/ \E j \in WorkflowJobs : JobDelete(j)

SpecSkills == InitSkills /\ [][NextSkills]_vars

(***************************************************************************)
(* Claims about the review eligibility gate and the review views           *)
(***************************************************************************)
AtMostOnePerTriple(rows) ==
    \A x \in rows, y \in rows :
        (x.job = y.job /\ x.reviewer = y.reviewer /\ x.reviewee = y.reviewee)
            => x = y

PendingRow(r) == NewReview(r.job, r.actor, r.target, MaxRating)

\* C1, as claimed: the gate check alone keeps the review table free of
\* duplicates, so a request the gate allowed could store its row in a table
\* that rejects nothing and the table would still hold at most one row per
\* (job, reviewer, reviewee).
C1_GateAloneKeepsUnique ==
    \A r \in BagToSet(req) :
        AtMostOnePerTriple(JobReviewSaveNoConstraint(reviews, PendingRow(r)))

\* C1, amended: after any interleaving of leave_review and quick_review
\* requests the review table holds at most one row per (job, reviewer,
\* reviewee); the gate together with the table's unique_together constraint
\* guarantees it.
C1_AtMostOneReviewPerTriple == AtMostOnePerTriple(reviews)

\* two requests passed the gate for one triple and the first has saved
C1_Witness ==
    \E r \in BagToSet(req) : ExistingReview(r.actor, r.target, r.job)

GateAnswer(reviewed) ==
    IF reviewed THEN <<FALSE, MsgAlready>> ELSE <<TRUE, MsgCan>>

\* C2: on a completed job with poster p and accepted volunteer v the gate
\* allows p -> v exactly while no p -> v review is stored and v -> p exactly
\* while no v -> p review is stored, whatever the other direction holds; once
\* the review of a direction is stored the answer is 'already reviewed', and
\* each direction holds at most one review.
C2_DirectionsIndependent ==
    \A j \in Jobs, v \in Users :
        (JobExists(j) /\ jobStatus[j] = "completed"
         /\ AcceptedApplicationExists(j, v)) =>
            LET p == jobPoster[j] IN
            /\ can_leave_review_for(p, v, j) = GateAnswer(ReviewsFor(j, p, v) # {})
            /\ can_leave_review_for(v, p, j) = GateAnswer(ReviewsFor(j, v, p) # {})
            /\ Cardinality(ReviewsFor(j, p, v)) <= 1
            /\ Cardinality(ReviewsFor(j, v, p)) <= 1

\* the poster has reviewed the volunteer, the volunteer has not yet reviewed
\* the poster
C2_Witness ==
    \E j \in Jobs, v \in Users :
        /\ JobExists(j) /\ jobStatus[j] = "completed"
        /\ AcceptedApplicationExists(j, v)
        /\ v # jobPoster[j]
        /\ ReviewsFor(j, jobPoster[j], v) # {}
        /\ ReviewsFor(j, v, jobPoster[j]) = {}

\* C3, as claimed: the co-participation check passes iff exactly one of
\* (actor is the poster and target has an accepted application) and (target
\* is the poster and actor has an accepted application) holds, and every
\* other combination, actor = target included, is denied with 'did not work
\* together'.
C3_ExactlyOneCondition ==
    \A j \in Jobs, a \in Users, t \in Users :
        JobExists(j) =>
            LET c1 == a = jobPoster[j] /\ AcceptedApplicationExists(j, t)
                c2 == t = jobPoster[j] /\ AcceptedApplicationExists(j, a)
                exactlyOne == (c1 /\ ~c2) \/ (c2 /\ ~c1)
            IN  /\ WorkedTogether(a, t, j) <=> exactlyOne
                /\ (~exactlyOne \/ a = t) =>
                       can_leave_review_for(a, t, j) = <<FALSE, MsgNotWorked>>

\* C4: while the application of volunteer v on a job is pending, under
\* review, rejected or withdrawn, the gate denies poster -> v and v -> poster
\* with 'did not work together', whatever the job status and the stored
\* reviews.
C4_NotAcceptedDenied ==
    \A j \in Jobs, v \in Users :
        (JobExists(j) /\ apps[<<j, v>>] \in AppStatus \ {"accepted"}) =>
            /\ can_leave_review_for(jobPoster[j], v, j) = <<FALSE, MsgNotWorked>>
            /\ can_leave_review_for(v, jobPoster[j], j) = <<FALSE, MsgNotWorked>>

\* Scenario D: a completed job, a pending application, no review
C4_Witness ==
    \E j \in Jobs, v \in Users :
        /\ JobExists(j) /\ jobStatus[j] = "completed"
        /\ v # jobPoster[j]
        /\ apps[<<j, v>>] = "pending"
        /\ reviews = {}

\* C5: every step of leave_review or quick_review that stores a review is
\* the save of a request whose own gate call returned allowed for the very
\* (reviewer, reviewee, job) of the stored row.
C5_SavedOnlyAfterAllowed ==
    [][reviews' # reviews =>
         \E r \in BagToSet(req) :
             /\ req' = req (-) SetToBag({r})
             /\ r.allowed
             /\ \E x \in reviews' \ reviews :
                    /\ reviews' = reviews \cup {x}
                    /\ x.job = r.job
                    /\ x.reviewer = r.actor
                    /\ x.reviewee = r.target]_vars

\* a review has been stored by one view while the other view has a request
\* past the gate
C5_Witness ==
    /\ reviews # {}
    /\ \E r \in BagToSet(req) : r.view = "quick_review"

(***************************************************************************)
(* Claims about the reputation score                                       *)
(***************************************************************************)
\* C7, as claimed: for every user and every state of reviews, verification
\* flag, profile fields and jobs-completed counter, reputation_score
\* returns a value (it does not fail) and the value is an integer from 0 to
\* 100.
C7_ScoreReturnsWithinBounds ==
    \A u \in ScoreUsers :
        /\ reputation_score(u).error = "none"
        /\ reputation_score(u).value \in 0..100

\* the score of the exact inputs: the five components with the exact mean of
\* the ratings, summed over the common denominator 6 * count, rounded, capped
ExactScore(u) ==
    LET cnt == total_reviews_count(u)
        d == IF cnt = 0 THEN 1 ELSE cnt
        rest6 == 6 * Min(cnt * 2, 20) + 6 * (IF isVerified[u] THEN 15 ELSE 0)
                 + 10 * Cardinality(filled[u] \cap ProfileFields)
                 + Min(3 * jobsCompleted[u], 30)
    IN  Min(RoundHalfEven(60 * SumRatings(ReceivedReviews(u)) + d * rest6, 6 * d), 100)

\* C8, as claimed: reputation_score equals the rounded, capped sum of the
\* five components computed from the exact inputs, the mean of the ratings
\* not being rounded on the way.
C8_ScoreIsExactSum ==
    \A u \in ScoreUsers : reputation_score(u) = Ok(ExactScore(u))

ReceivedRatingCount(u, x) ==
    Cardinality({y \in ReceivedReviews(u) : y.rating = x})

ScenarioA(u) ==
    /\ total_reviews_count(u) = 3
    /\ ReceivedRatingCount(u, 5) = 2
    /\ ReceivedRatingCount(u, 4) = 1
    /\ isVerified[u]
    /\ filled[u] = ProfileFields
    /\ jobsCompleted[u] = 10

\* C9, as claimed: a verified user with ratings {5, 5, 4}, six filled profile
\* fields and 10 completed jobs has volume 6, verification 15, profile 10,
\* activity 5, reputation_score 83 and level 'Excellent'.
C9_ScenarioA ==
    \A u \in ScoreUsers :
        ScenarioA(u) =>
            /\ review_count_score(u) = 6
            /\ verification_score(u) = 15
            /\ profile_score6(u) = 6 * 10
            /\ activity_score6(u) = Ok(6 * 5)
            /\ reputation_score(u) = Ok(83)
            /\ reputation_level(u) = Ok("Excellent")

ScenarioB(u) ==
    /\ total_reviews_count(u) = 0
    /\ ~isVerified[u]
    /\ filled[u] = {}
    /\ jobsCompleted[u] = 0

\* C10, as claimed: an unverified user with no review, no filled profile
\* field and no completed job has reputation_score 0 and level 'New', and
\* no error is raised.
C10_ScenarioB ==
    \A u \in ScoreUsers :
        ScenarioB(u) =>
            /\ reputation_score(u) = Ok(0)
            /\ reputation_level(u) = Ok("New")

(***************************************************************************)
(* Claims about what the engine writes                                     *)
(***************************************************************************)
\* everything stored except the Skill rows and the users' skill sets
nonSkillStore == <<jobPoster, jobStatus, requiredWorkers, apps, reviews,
                   profileVars, catalogVars>>

\* C6: a call of can_leave_review_for, reputation_score, reputation_level,
\* the review statistics or get_recommended_jobs leaves every stored row as
\* it was (the gate stores no review); a call of auto_detect_skills changes
\* nothing but the Skill table, which only gains rows, and the skill set of
\* the calling user, which only gains members, each of them a Skill row.
C6_OnlySkillInferenceWrites ==
    [][IF lastCall'.op = "auto_detect_skills"
       THEN /\ UNCHANGED nonSkillStore
            /\ skillRows \subseteq skillRows'
            /\ \A u \in Users :
                  /\ userSkills[u] \subseteq userSkills'[u]
                  /\ userSkills'[u] \subseteq skillRows'
                  /\ u # lastCall'.user => userSkills'[u] = userSkills[u]
       ELSE UNCHANGED <<nonSkillStore, skillVars>>]_vars

\* skill inference has run for a user who had picked a skill by hand, and
\* the user now holds that skill and an inferred one
C6_Witness ==
    /\ lastCall.op = "auto_detect_skills"
    /\ SkillFoodService \in userSkills[lastCall.user]
    /\ SkillNameOf(Cat_security) \in userSkills[lastCall.user]
    /\ SkillNameOf(Cat_security) \in skillRows

(***************************************************************************)
(* Claims about the reputation tier and the review statistics              *)
(***************************************************************************)
\* the tier the thresholds give to a score
ClaimedTier(score) ==
    CASE score >= 90 -> "Elite"
      [] score \in 75..89 -> "Excellent"
      [] score \in 60..74 -> "Good"
      [] score \in 40..59 -> "Fair"
      [] score \in 0..39 -> "New"

\* C11, as claimed: for every user reputation_level returns the tier of the
\* user's score, a score in 0..100 going to exactly one of Elite (>= 90),
\* Excellent (75..89), Good (60..74), Fair (40..59) and New (0..39).
C11_LevelFollowsThresholds ==
    \A u \in ScoreUsers :
        \E s \in 0..100 :
            /\ reputation_score(u) = Ok(s)
            /\ reputation_level(u) = Ok(ClaimedTier(s))

PositiveCount(u) == Cardinality({x \in ReceivedReviews(u) : x.rating >= 4})

\* the statistics were read last, for user u, and nothing was stored since
StatisticsJustRead(u) ==
    /\ lastCall.op = "statistics"
    /\ lastCall.user = u
    /\ lastCall.result = Ok(<<average_rating(u), total_reviews_count(u),
                              rating_distribution(u),
                              positive_review_percentage(u)>>)

\* C12, as claimed: positive_review_percentage is 0 with no received review
\* and otherwise equals 100 * positive / total exactly (here in tenths of a
\* percent: value * total = 1000 * positive), a value in [0, 100].
C12_PercentageIsExactRatio ==
    \A u \in Users :
        LET total == total_reviews_count(u)
            value == positive_review_percentage(u)
        IN  /\ total = 0 => value = 0
            /\ total > 0 => value * total = 1000 * PositiveCount(u)
            /\ value \in 0..1000

\* C12, amended: positive_review_percentage is 0 with no received review (no
\* division is attempted) and otherwise is 100 * positive / total rounded to
\* one decimal place: it differs from the exact ratio by at most 0.05 and
\* lies in [0, 100].
C12_PercentageIsRoundedRatio ==
    \A u \in Users :
        LET total == total_reviews_count(u)
            value == positive_review_percentage(u)
            diff == value * total - 1000 * PositiveCount(u)
        IN  /\ total = 0 => value = 0
            /\ total > 0 => (2 * diff <= total /\ -2 * diff <= total)
            /\ value \in 0..1000

\* the statistics of a user with three reviews, two of them positive, were
\* read: 66.7 percent
C12_Witness ==
    \E u \in Users :
        /\ StatisticsJustRead(u)
        /\ total_reviews_count(u) = 3
        /\ PositiveCount(u) = 2
        /\ lastCall.result.value[4] = 667

\* C13: rating_distribution has exactly the keys 1, 2, 3, 4 and 5, the value
\* of a key is the number of reviews the user received with that rating (0
\* when there is none), and the five values sum to total_reviews_count.
C13_DistributionHasFiveKeys ==
    \A u \in Users :
        LET dist == rating_distribution(u) IN
        /\ DOMAIN dist = {1, 2, 3, 4, 5}
        /\ \A i \in DOMAIN dist :
              dist[i] = Cardinality({x \in reviews : x.reviewee = u /\ x.rating = i})
        /\ dist[1] + dist[2] + dist[3] + dist[4] + dist[5] = total_reviews_count(u)

\* the distribution of a user with two 5-star reviews and one 3-star review
\* was read: the keys 1, 2 and 4 are present with count 0
C13_Witness ==
    \E u \in Users :
        /\ StatisticsJustRead(u)
        /\ lastCall.result.value[3] = <<0, 0, 1, 0, 2>>

(***************************************************************************)
(* Claims about skill inference                                            *)
(***************************************************************************)
\* a step that is a call of auto_detect_skills by user u
AutoDetectStep(u) ==
    /\ lastCall'.op = "auto_detect_skills"
    /\ lastCall'.user = u
    /\ UNCHANGED workflowVars

\* C14: after a call of auto_detect_skills, with jobs and applications as
\* they are, one more call gives the user the skill set the user already has
\* and the Skill table the rows it already has.
C14_InferenceIdempotent ==
    [][\A u \in Users :
          AutoDetectStep(u) =>
              LET again == detected_names(u)'
              IN  /\ SkillsAdd(userSkills'[u], again) = userSkills'[u]
                  /\ GetOrCreateSkills(skillRows', again) = skillRows']_vars

\* a call that detected skills and added none of them, for a user holding an
\* inferred skill: a repeated call
C14_Witness ==
    /\ lastCall.op = "auto_detect_skills"
    /\ lastCall.result.value[1] > 0
    /\ lastCall.result.value[2] = 0
    /\ userSkills[lastCall.user] \ InitialSkills # {}
    /\ accepted_apps(lastCall.user) \cup posted_jobs(lastCall.user) # {}

\* C15: no step takes a skill away from a user, and after a call of
\* auto_detect_skills the user holds every skill held before, whether picked
\* by hand or inferred earlier from a job or application that is gone or no
\* longer accepted.
C15_SkillsOnlyGrow ==
    [][\A u \in Users : userSkills[u] \subseteq userSkills'[u]]_vars

\* u2 got skills from an accepted application, the application is no longer
\* accepted (or the job is deleted), and a later call for u2 detected nothing
\* and left the skills in place
C15_Witness ==
    /\ lastCall.op = "auto_detect_skills"
    /\ lastCall.user = "u2"
    /\ lastCall.result.value[1] = 0
    /\ userSkills["u2"] # {}
    /\ accepted_apps("u2") = {}

\* C17: a call of auto_detect_skills by a user with no accepted application
\* and no posted job returns without raising and leaves the user's skills
\* and the Skill table as they were; and the text of an application whose
\* relevant_experience is None is the text it has with an empty experience.
C17_NothingToDetect ==
    [][/\ \A u \in Users :
             (AutoDetectStep(u) /\ accepted_apps(u) = {} /\ posted_jobs(u) = {}) =>
                 /\ lastCall'.result = Ok(<<0, 0>>)
                 /\ UNCHANGED skillVars
       /\ \A j \in Jobs, v \in Users :
             appExperience[<<j, v>>] = NoneText =>
                 ApplicationText(j, v)
                     = Lower(jobTitle[j] \o Space \o jobDescription[j] \o Space)]_vars

\* u2, whose application carries experience text with keywords but is not
\* accepted, called auto_detect_skills and holds no skill
C17_Witness ==
    /\ lastCall = [op |-> "auto_detect_skills", user |-> "u2", result |-> Ok(<<0, 0>>)]
    /\ userSkills["u2"] = {}
    /\ apps[<<"j1", "u2">>] = "rejected"
    /\ appExperience[<<"j1", "u2">>] = ExperienceMC

(***************************************************************************)
(* Interleaved calls of auto_detect_skills                                 *)
(*                                                                         *)
(* The home view (src/core/views.py:49-51) and the profile form            *)
(* (src/accounts/forms.py:158-161) call auto_detect_skills in the request  *)
(* that reaches them, so two requests of one user run the method at the    *)
(* same time. Every invocation takes its steps one store access at a time: *)
(* the read of the accepted applications, the read of the posted jobs, and *)
(* for every detected skill a get_or_create followed by skills.add.        *)
(***************************************************************************)
\* the skills the users hold before any invocation starts
InferStartSkills(u) == IF u = "u1" THEN {SkillFoodService} ELSE {}

\* the method is entered for user u
InferStart(i, u) ==
    /\ infer[i].pc = "idle"
    /\ infer' = [infer EXCEPT ![i] = [IdleInvocation EXCEPT !.pc = "apps", !.user = u]]
    /\ UNCHANGED <<workflowVars, profileVars, catalogVars, skillVars, pageVars, lastCall>>

\* the loop over accepted_apps: the query runs when the loop starts
InferReadApps(i) ==
    LET u == infer[i].user IN
    /\ infer[i].pc = "apps"
    /\ infer' = [infer EXCEPT ![i].pc = "jobs",
                              ![i].detected =
                                  detected_in({ApplicationText(j, u) : j \in accepted_apps(u)})]
    /\ UNCHANGED <<workflowVars, profileVars, catalogVars, skillVars, pageVars, lastCall>>

\* the loop over posted_jobs; after it the names of the skills to add are known
InferReadJobs(i) ==
    LET u == infer[i].user
        all == infer[i].detected \cup detected_in({PostedJobText(j) : j \in posted_jobs(u)})
    IN
    /\ infer[i].pc = "jobs"
    /\ infer' = [infer EXCEPT ![i].pc = "create",
                              ![i].detected = all,
                              ![i].todo = {SkillNameOf(c) : c \in all}]
    /\ UNCHANGED <<workflowVars, profileVars, catalogVars, skillVars, pageVars, lastCall>>

\* Skill.objects.get_or_create for the next detected skill, one step of the
\* store; a set is iterated in no fixed order
InferGetOrCreate(i, name) ==
    /\ infer[i].pc = "create"
    /\ name \in infer[i].todo
    /\ skillRows' = GetOrCreateSkills(skillRows, {name})
    /\ infer' = [infer EXCEPT ![i].pc = "add", ![i].skill = name]
    /\ UNCHANGED <<workflowVars, profileVars, catalogVars, userSkills, pageVars, lastCall>>

\* self.skills.add(skill) for the skill just looked up
InferAdd(i) ==
    LET u == infer[i].user IN
    /\ infer[i].pc = "add"
    /\ userSkills' = [userSkills EXCEPT ![u] = SkillsAdd(@, {infer[i].skill})]
    /\ infer' = [infer EXCEPT ![i].pc = "create",
                              ![i].todo = @ \ {infer[i].skill},
                              ![i].skill = EmptyText]
    /\ UNCHANGED <<workflowVars, profileVars, catalogVars, skillRows, pageVars, lastCall>>

\* the loop is over and the method returns None
InferReturn(i) ==
    /\ infer[i].pc = "create"
    /\ infer[i].todo = {}
    /\ infer' = [infer EXCEPT ![i].pc = "done"]
    /\ UNCHANGED <<workflowVars, profileVars, catalogVars, skillVars, pageVars, lastCall>>

\* one job of u1 with an accepted application of u2; nobody is inside the
\* method
InitInfer ==
    /\ jobPoster = [j \in Jobs |-> IF j = "j1" THEN "u1" ELSE NoUser]
    /\ jobStatus = [j \in Jobs |-> IF j = "j1" THEN "published" ELSE "draft"]
    /\ requiredWorkers = [j \in Jobs |-> 1]
    /\ apps = [p \in Jobs \X Users |-> IF p = <<"j1", "u2">> THEN "accepted" ELSE NoApp]
    /\ reviews = {}
    /\ req = EmptyBag
    /\ isVerified = [u \in Users |-> FALSE]
    /\ filled = [u \in Users |-> {}]
    /\ jobsCompleted = [u \in Users |-> 0]
    /\ \E t \in TitleSamples :
          jobTitle = [j \in Jobs |-> IF j = "j1" THEN t ELSE TitleStage]
    /\ jobDescription = [j \in Jobs |-> DescPlain]
    /\ \E x \in ExperienceSamples :
          appExperience = [p \in Jobs \X Users |->
                             IF p = <<"j1", "u2">> THEN x ELSE EmptyText]
    /\ userLocation = [u \in Users |-> EmptyText]
    /\ jobSkills = [j \in Jobs |-> {}]
    /\ jobEventDay = [j \in Jobs |-> 1]
    /\ jobUrgent = [j \in Jobs |-> FALSE]
    /\ jobCreatedAt = [j \in Jobs |-> JobRank(j)]
    /\ jobLocation = [j \in Jobs |-> JobLocationOf(j)]
    /\ jobCategory = [j \in Jobs |-> JobCategoryOf(j)]
    /\ skillRows = InitialSkills
    /\ userSkills = [u \in Users |-> InferStartSkills(u)]
    /\ infer = [i \in Invocations |-> IdleInvocation]
    /\ QuietPages
    /\ lastCall = NoCall

NextInfer ==
    \/ \E i \in Invocations, u \in Users : InferStart(i, u)
    \/ \E i \in Invocations : InferReadApps(i)
    \/ \E i \in Invocations : InferReadJobs(i)
    \/ \E i \in Invocations : \E name \in infer[i].todo : InferGetOrCreate(i, name)
    \/ \E i \in Invocations : InferAdd(i)
    \/ \E i \in Invocations : InferReturn(i)

SpecInfer == InitInfer /\ [][NextInfer]_vars

\* the invocations for user u
InvocationsOf(u) == {i \in Invocations : infer[i].user = u}

\* C16: when every invocation that was started has returned, every user the
\* method ran for holds the skills a single run, or two runs one after the
\* other, give: the skills held at the start and the detected ones; the
\* Skill table has one row per name; and while invocations are running no
\* skill of a user is lost.
C16_InterleavedLikeSequential ==
    /\ \A u \in Users : InferStartSkills(u) \subseteq userSkills[u]
    /\ (\A i \in Invocations : infer[i].pc \in {"idle", "done"}) =>
           /\ \A u \in Users :
                 userSkills[u] = InferStartSkills(u)
                     \cup (IF InvocationsOf(u) = {} THEN {} ELSE detected_names(u))
           /\ skillRows = InitialSkills
                 \cup UNION {detected_names(infer[i].user) : i \in {k \in Invocations : infer[k].pc = "done"}}

\* two invocations for u2 have both returned, each had at least two skills
\* to add, and u2 holds them
C16_Witness ==
    /\ infer[1].pc = "done" /\ infer[2].pc = "done"
    /\ infer[1].user = "u2" /\ infer[2].user = "u2"
    /\ Cardinality(infer[1].detected) >= 2
    /\ Cardinality(userSkills["u2"]) >= 2

(***************************************************************************)
(* Claims about the recommendations and about the engine as a whole        *)
(***************************************************************************)
SkillCatering == <<"C", "a", "t", "e", "r", "i", "n", "g">>

\* Scenario C: the user holds Photography and Catering and lives in
\* "Mumbai, Maharashtra"; j1 is published, upcoming, located in Mumbai and
\* requires Photography; j2 is published, upcoming, located in Delhi and
\* requires no skill of the user
ScenarioC(u) ==
    /\ userSkills[u] = {SkillPhotography, SkillCatering}
    /\ userLocation[u] = LocationMumbai
    /\ jobStatus["j1"] = "published" /\ jobEventDay["j1"] >= Today
    /\ jobLocation["j1"] = JobInMumbai
    /\ jobSkills["j1"] = {SkillPhotography}
    /\ jobStatus["j2"] = "published" /\ jobEventDay["j2"] >= Today
    /\ jobLocation["j2"] = JobInDelhi
    /\ jobSkills["j2"] \cap userSkills[u] = {}

\* C18: in Scenario C get_recommended_jobs returns exactly the Mumbai job.
C18_ScenarioC ==
    \A u \in Users, n \in Limits :
        ScenarioC(u) => get_recommended_jobs(u, n) = Ok(<<"j1">>)

\* what the engine operations read: jobs, applications, reviews, profiles,
\* texts and skills
engineInputs == <<workflowVars, profileVars, catalogVars, skillVars>>

\* the outcome (value returned or exception raised) of every read operation
\* of the engine for user u
EngineOutcomes(u) ==
    <<reputation_score(u), reputation_level(u), average_rating(u),
      total_reviews_count(u), rating_distribution(u),
      positive_review_percentage(u),
      [n \in Limits |-> get_recommended_jobs(u, n)]>>

C20_ChecksInOrder ==
    \A self \in Users, user \in Users, job \in Jobs :
        JobExists(job) =>
            LET answer == can_leave_review_for(self, user, job) IN
            /\ ~WorkedTogether(self, user, job) => answer = <<FALSE, MsgNotWorked>>
            /\ (WorkedTogether(self, user, job) /\ jobStatus[job] # "completed")
                   => answer = <<FALSE, MsgNotCompleted>>
            /\ answer = <<FALSE, MsgAlready>>
                   => /\ WorkedTogether(self, user, job)
                      /\ jobStatus[job] = "completed"
                      /\ ExistingReview(self, user, job)

\* a review of an accepted volunteer is stored and the job has left the
\* status completed afterwards: the second and the third check both fail
C20_Witness ==
    \E job \in Jobs, v \in Users :
        /\ JobExists(job)
        /\ v # jobPoster[job]
        /\ apps[<<job, v>>] = "accepted"
        /\ jobStatus[job] \in {"draft", "published", "in_progress", "cancelled"}
        /\ ExistingReview(jobPoster[job], v, job)

(***************************************************************************)
(* What auto_detect_skills detects                                         *)
(***************************************************************************)
\* keyword occurs in text at some position, letter by letter
OccursIn(keyword, text) ==
    \E start \in 0..(Len(text) - Len(keyword)) :
        \A k \in 1..Len(keyword) : text[start + k] = keyword[k]

\* the lower-cased texts the claim names for user u: title, description and
\* experience of every accepted application, title and description of every
\* posted job
ClaimedTexts(u) ==
    {Lower(jobTitle[j] \o Space \o jobDescription[j] \o Space
           \o (IF appExperience[<<j, u>>] = NoneText
               THEN EmptyText ELSE appExperience[<<j, u>>])) :
        j \in {x \in Jobs : jobPoster[x] # NoUser /\ apps[<<x, u>>] = "accepted"}}
    \cup {Lower(jobTitle[j] \o Space \o jobDescription[j]) :
            j \in {x \in Jobs : jobPoster[x] = u}}

ClaimedCategories(u) ==
    {c \in SkillCategories :
        \E text \in ClaimedTexts(u), k \in skill_keywords(c) : OccursIn(k, text)}

SkillTechnicalSupport ==
    <<"T", "e", "c", "h", "n", "i", "c", "a", "l", " ", "S", "u", "p", "p", "o", "r", "t">>
SkillCommunication ==
    <<"C", "o", "m", "m", "u", "n", "i", "c", "a", "t", "i", "o", "n">>

\* C21: a call of auto_detect_skills detects exactly the categories one of
\* whose keywords occurs in the lower-cased text of an accepted application
\* or of a posted job of the user (applications of another status count for
\* nothing), and gives the user the skill named after each of them, with
\* underscores replaced by spaces and in title case.
C21_DetectedIffKeywordOccurs ==
    [][\A u \in Users :
          AutoDetectStep(u) =>
              LET claimed == {Title(ReplaceUnderscores(c)) : c \in ClaimedCategories(u)}
              IN  /\ userSkills'[u] = userSkills[u] \cup claimed
                  /\ skillRows' = skillRows \cup claimed
                  /\ lastCall'.result.value[1] = Cardinality(claimed)
                  /\ Cat_technical_support \in ClaimedCategories(u)
                         => SkillTechnicalSupport \in userSkills'[u]]_vars

\* u2, accepted on a job, got Communication from the experience text of the
\* application and at least one more skill from the title of the job
C21_Witness ==
    /\ lastCall.op = "auto_detect_skills"
    /\ lastCall.user = "u2"
    /\ lastCall.result.value[1] >= 2
    /\ apps[<<"j1", "u2">>] = "accepted"
    /\ SkillCommunication \in userSkills["u2"]

(***************************************************************************)
(* Recommendations while jobs and the profile change                       *)
(***************************************************************************)
\* the user whose profile is edited
RecommendUsers == {"u1"}

\* the skill sets picked in the profile form
SkillChoices ==
    {{}, {SkillPhotography}, {SkillPhotography, SkillCatering}, {SkillFoodService}}

\* UserProfileForm saved with the skills field: the ticked skills replace the
\* user's skills
ProfileSkillsEdit(u, picked) ==
    /\ picked \subseteq skillRows
    /\ userSkills[u] # picked
    /\ userSkills' = [userSkills EXCEPT ![u] = picked]
    /\ UNCHANGED <<workflowVars, profileVars, catalogVars, skillRows, infer, pageVars, lastCall>>

\* two published jobs of u2; the event date and the required skills of j1
\* and the urgency of both are drawn
InitRecommend ==
    /\ jobPoster = [j \in Jobs |-> "u2"]
    /\ jobStatus = [j \in Jobs |-> "published"]
    /\ requiredWorkers = [j \in Jobs |-> 1]
    /\ apps = [p \in Jobs \X Users |-> NoApp]
    /\ reviews = {}
    /\ req = EmptyBag
    /\ isVerified = [u \in Users |-> FALSE]
    /\ filled = [u \in Users |-> {}]
    /\ jobsCompleted = [u \in Users |-> 0]
    /\ jobTitle = [j \in Jobs |-> TitleStage]
    /\ jobDescription = [j \in Jobs |-> DescPlain]
    /\ appExperience = [p \in Jobs \X Users |-> EmptyText]
    /\ userLocation = [u \in Users |-> EmptyText]
    /\ \E s1 \in {{SkillPhotography}, {SkillPhotography, SkillCatering}},
          s2 \in {{}, {SkillFoodService}} :
          jobSkills = [j \in Jobs |-> IF j = "j1" THEN s1 ELSE s2]
    /\ \E d \in {-1, 0, 1} : jobEventDay = [j \in Jobs |-> IF j = "j1" THEN d ELSE 1]
    /\ jobUrgent \in [Jobs -> BOOLEAN]
    /\ jobCreatedAt = [j \in Jobs |-> JobRank(j)]
    /\ jobLocation = [j \in Jobs |-> JobLocationOf(j)]
    /\ jobCategory = [j \in Jobs |-> JobCategoryOf(j)]
    /\ skillRows = InitialSkills \cup {SkillCatering}
    /\ userSkills = [u \in Users |-> {}]
    /\ infer = [i \in Invocations |-> IdleInvocation]
    /\ QuietPages
    /\ lastCall = NoCall

NextRecommend ==
    \/ \E u \in Users, n \in Limits : CallRecommendedJobs(u, n)
    \/ \E j \in Jobs, s \in JobStatus : JobAdminSetStatus(j, s)
    \/ \E u \in RecommendUsers, b \in BOOLEAN : ProfileUpdate(u, "location", b)
    \/ \E u \in RecommendUsers, picked \in SkillChoices : ProfileSkillsEdit(u, picked)

SpecRecommend == InitRecommend /\ [][NextRecommend]_vars

\* the jobs of a returned list
JobsOf(result) == {result.value[i] : i \in 1..Len(result.value)}

\* a call of get_recommended_jobs returned a list
Returned(result) == result.error = "none"

\* C22: every job in a list returned by get_recommended_jobs is published
\* and has its event today or later, for every user and every limit.
C22_OnlyPublishedUpcoming ==
    \A u \in Users, n \in Limits :
        LET result == get_recommended_jobs(u, n) IN
        Returned(result) =>
            \A j \in JobsOf(result) :
                jobStatus[j] = "published" /\ jobEventDay[j] >= Today

\* a list with one job was handed out while the other job is completed or
\* cancelled, or published with its event in the past
C22_Witness ==
    /\ lastCall.op = "get_recommended_jobs"
    /\ lastCall.result = get_recommended_jobs(lastCall.user, 8)
    /\ Returned(lastCall.result)
    /\ lastCall.result.value = <<"j2">>
    /\ \/ jobStatus["j1"] \in {"completed", "cancelled", "draft", "in_progress"}
       \/ jobStatus["j1"] = "published" /\ jobEventDay["j1"] < Today

\* C23: for a user with a skill, every job of a returned list requires a
\* skill the user holds (so a job with no required skill is not in it) and
\* no job is in the list twice, however many skills it shares with the user;
\* for a user with no skill a list that is not cut by the limit has every
\* published upcoming job.
C23_SkillNarrowing ==
    \A u \in Users, n \in Limits :
        LET result == get_recommended_jobs(u, n) IN
        Returned(result) =>
            /\ userSkills[u] # {} =>
                  \A j \in JobsOf(result) : jobSkills[j] \cap userSkills[u] # {}
            /\ \A i \in 1..Len(result.value), k \in 1..Len(result.value) :
                  i # k => result.value[i] # result.value[k]
            /\ (userSkills[u] = {} /\ n >= Cardinality(BaseCandidates)) =>
                  JobsOf(result) = BaseCandidates

\* u1 holds two skills that j1 requires, j2 is published and upcoming and
\* requires no skill of u1, and the list handed to u1 is j1, once
C23_Witness ==
    /\ lastCall.op = "get_recommended_jobs"
    /\ lastCall.user = "u1"
    /\ lastCall.result = Ok(<<"j1">>)
    /\ lastCall.result = get_recommended_jobs("u1", 8)
    /\ Cardinality(jobSkills["j1"] \cap userSkills["u1"]) = 2
    /\ BaseCandidates = {"j1", "j2"}
    /\ jobSkills["j2"] \cap userSkills["u1"] = {}

\* str.split(','): the pieces between the commas
RECURSIVE SplitComma(_)
SplitComma(s) ==
    IF \A i \in 1..Len(s) : s[i] # ","
    THEN <<s>>
    ELSE LET at == CHOOSE i \in 1..Len(s) :
                       s[i] = "," /\ \A k \in 1..(i - 1) : s[k] # ","
         IN  <<SubSeq(s, 1, at - 1)>> \o SplitComma(SubSeq(s, at + 1, Len(s)))

\* str.strip() for blanks
RECURSIVE Strip(_)
Strip(s) ==
    IF s = <<>> THEN s
    ELSE IF Head(s) = " " THEN Strip(Tail(s))
    ELSE IF s[Len(s)] = " " THEN Strip(SubSeq(s, 1, Len(s) - 1))
    ELSE s

\* the parts of self.location.lower().split(',') that are not empty once
\* stripped
LocationParts(u) ==
    LET pieces == SplitComma(Lower(userLocation[u]))
    IN  {Strip(pieces[i]) : i \in 1..Len(pieces)} \ {EmptyText}

\* Q(location__icontains=part) for one of the parts
LocationKeeps(u, j) ==
    \E part \in LocationParts(u) : Contains(Lower(jobLocation[j]), part)

\* C24: a call by a user with a location returns, and a list not cut by the
\* limit has exactly the candidates (published, upcoming, narrowed by skill)
\* whose location contains one of the parts of the user's location; for a
\* user without a location no candidate is taken out.
C24_LocationFilter ==
    \A u \in Users, n \in Limits :
        LET result == get_recommended_jobs(u, n)
            candidates == BagToSet(SkillFiltered(u, BaseCandidates))
        IN  /\ Returned(result)
            /\ n >= Cardinality(candidates) =>
                  JobsOf(result) =
                      IF userLocation[u] # EmptyText
                      THEN {j \in candidates : LocationKeeps(u, j)}
                      ELSE candidates

\* C25: a returned list has at most `limit` jobs (6 when no limit is given),
\* is the head of the list an unlimited call returns, has no non-urgent job
\* before an urgent one and, within equal urgency, the later created job
\* first; and a candidate is missing from it only if the list is full of jobs
\* that sort before it.
C25_OrderedAndLimited ==
    \A u \in Users, n \in Limits \cup {DefaultLimit} :
        LET result == IF n = DefaultLimit THEN get_recommended_jobs_default(u)
                      ELSE get_recommended_jobs(u, n)
            list == result.value
            candidates == BagToSet(SkillFiltered(u, BaseCandidates))
        IN  Returned(result) =>
            /\ Len(list) <= n
            /\ JobsOf(result) \subseteq candidates
            /\ \A i \in 1..Len(list), k \in 1..Len(list) :
                  i < k =>
                      /\ ~(~jobUrgent[list[i]] /\ jobUrgent[list[k]])
                      /\ jobUrgent[list[i]] = jobUrgent[list[k]]
                             => jobCreatedAt[list[i]] >= jobCreatedAt[list[k]]
            /\ \A c \in candidates \ JobsOf(result) :
                  /\ Len(list) = n
                  /\ \A j \in JobsOf(result) :
                        \/ jobUrgent[j] /\ ~jobUrgent[c]
                        \/ jobUrgent[j] = jobUrgent[c]
                           /\ jobCreatedAt[j] > jobCreatedAt[c]

\* the older job j1 is urgent and j2 is not: the list of limit 1 is j1 alone
\* and j2 is left out
C25_Witness ==
    /\ lastCall.op = "get_recommended_jobs"
    /\ lastCall.result = Ok(<<"j1">>)
    /\ get_recommended_jobs(lastCall.user, 1) = Ok(<<"j1">>)
    /\ get_recommended_jobs(lastCall.user, 8) = Ok(<<"j1", "j2">>)
    /\ get_recommended_jobs_default(lastCall.user) = Ok(<<"j1", "j2">>)
    /\ jobUrgent["j1"] /\ ~jobUrgent["j2"]
    /\ jobCreatedAt["j1"] < jobCreatedAt["j2"]

(***************************************************************************)
(* The score of a user nobody reviewed                                     *)
(***************************************************************************)
\* C27, as claimed: a user with no received review has a reputation_score of
\* at most 30 and the reputation_level 'New', whatever the verification
\* flag, the filled profile fields and the jobs-completed counter; and a user
\* whose level is Fair or above has received a review.
C27_NoReviewsStaysNew ==
    \A u \in ScoreUsers :
        /\ ReceivedReviews(u) = {} =>
              /\ \E s \in 0..30 : reputation_score(u) = Ok(s)
              /\ reputation_level(u) = Ok("New")
        /\ reputation_level(u) \in {Ok("Fair"), Ok("Good"), Ok("Excellent"), Ok("Elite")}
              => ReceivedReviews(u) # {}

(***************************************************************************)
(* Helpful votes (mark_review_helpful)                                     *)
(*                                                                         *)
(* Every request takes its steps one store access at a time: the load of   *)
(* the review, get_or_create of the vote, the delete of a vote that was    *)
(* there, the count of the votes and the save of the review.               *)
(***************************************************************************)
\* ReviewHelpful rows of review r
helpful_votes(r) == {x \in helpfulRows : x[1] = r}

\* review = get_object_or_404(JobReview, id=review_id)
MarkLoad(i, u, r) ==
    /\ marking[i].pc = "idle"
    /\ marking' = [marking EXCEPT ![i] = [IdleMarking EXCEPT !.pc = "vote",
                                                             !.user = u, !.review = r]]
    /\ UNCHANGED <<workflowVars, profileVars, catalogVars, skillVars, infer,
                   home, helpfulRows, helpfulCount, lastCall>>

\* ReviewHelpful.objects.get_or_create(review=review, user=request.user)
MarkGetOrCreate(i) ==
    LET row == <<marking[i].review, marking[i].user>> IN
    /\ marking[i].pc = "vote"
    /\ helpfulRows' = helpfulRows \cup {row}
    /\ marking' = [marking EXCEPT ![i].created = row \notin helpfulRows,
                                  ![i].pc = IF row \notin helpfulRows
                                            THEN "count" ELSE "delete"]
    /\ UNCHANGED <<workflowVars, profileVars, catalogVars, skillVars, infer,
                   home, helpfulCount, lastCall>>

\* helpful.delete() of the vote that was found
MarkDelete(i) ==
    /\ marking[i].pc = "delete"
    /\ helpfulRows' = helpfulRows \ {<<marking[i].review, marking[i].user>>}
    /\ marking' = [marking EXCEPT ![i].pc = "count"]
    /\ UNCHANGED <<workflowVars, profileVars, catalogVars, skillVars, infer,
                   home, helpfulCount, lastCall>>

\* review.helpful_count = review.helpful_votes.count(), on the loaded object
MarkCount(i) ==
    /\ marking[i].pc = "count"
    /\ marking' = [marking EXCEPT ![i].count = Cardinality(helpful_votes(marking[i].review)),
                                  ![i].pc = "save"]
    /\ UNCHANGED <<workflowVars, profileVars, catalogVars, skillVars, infer,
                   home, helpfulRows, helpfulCount, lastCall>>

\* review.save() and the JSON answer
MarkSave(i) ==
    /\ marking[i].pc = "save"
    /\ helpfulCount' = [helpfulCount EXCEPT ![marking[i].review] = marking[i].count]
    /\ marking' = [marking EXCEPT ![i].pc = "done"]
    /\ lastCall' = [op |-> "mark_review_helpful", user |-> marking[i].user,
                    result |-> Ok(<<IF marking[i].created THEN "added" ELSE "removed",
                                    marking[i].count>>)]
    /\ UNCHANGED <<workflowVars, profileVars, catalogVars, skillVars, infer,
                   home, helpfulRows>>

\* a completed job with a review of u2 by u1, the review r1; no vote yet
InitHelpful ==
    /\ jobPoster = [j \in Jobs |-> "u1"]
    /\ jobStatus = [j \in Jobs |-> "completed"]
    /\ requiredWorkers = [j \in Jobs |-> 1]
    /\ apps = [p \in Jobs \X Users |-> IF p = <<"j1", "u2">> THEN "accepted" ELSE NoApp]
    /\ \E x \in Ratings :
          reviews = {[n |-> 1, job |-> "j1", reviewer |-> "u1",
                      reviewee |-> "u2", rating |-> x]}
    /\ req = EmptyBag
    /\ isVerified = [u \in Users |-> FALSE]
    /\ filled = [u \in Users |-> {}]
    /\ jobsCompleted = [u \in Users |-> 0]
    /\ PlainCatalog
    /\ lastCall = NoCall

NextHelpful ==
    \/ \E i \in Markings, u \in Users, r \in HelpfulReviews : MarkLoad(i, u, r)
    \/ \E i \in Markings : MarkGetOrCreate(i)
    \/ \E i \in Markings : MarkDelete(i)
    \/ \E i \in Markings : MarkCount(i)
    \/ \E i \in Markings : MarkSave(i)

SpecHelpful == InitHelpful /\ [][NextHelpful]_vars

\* C30, as claimed: once the requests that were started have answered, in
\* whatever order their steps were taken, the helpful_count of a review is
\* the number of its ReviewHelpful rows.
C30_CountEqualsVotes ==
    (\A i \in Markings : marking[i].pc \in {"idle", "done"}) =>
        \A r \in HelpfulReviews : helpfulCount[r] = Cardinality(helpful_votes(r))

(***************************************************************************)
(* Accepted applications and the positions of a job                        *)
(***************************************************************************)
\* C29, as claimed: whatever job_apply, application_action and
\* bulk_application_action requests were made, a job has at most
\* required_workers accepted applications, so remaining_positions is
\* required_workers minus the accepted count, the clamp at 0 never acting.
C29_AcceptedWithinCapacity ==
    \A j \in Jobs :
        JobExists(j) =>
            /\ selected_workers_count(j) <= requiredWorkers[j]
            /\ remaining_positions(j) = requiredWorkers[j] - selected_workers_count(j)

(***************************************************************************)
(* The home page (core.views.home)                                         *)
(***************************************************************************)
\* categories[:6], category_jobs[:2] and diverse_jobs[:8]
HomeCategoryCap == 6
HomePerCategory == 2
HomeLimit == 8

\* the jobs of S by created_at, latest first
RECURSIVE LatestFirst(_)
LatestFirst(S) ==
    IF S = {} THEN <<>>
    ELSE LET first == CHOOSE a \in S : \A b \in S \ {a} : jobCreatedAt[a] > jobCreatedAt[b]
         IN  <<first>> \o LatestFirst(S \ {first})

\* featured_jobs of the anonymous branch: published, upcoming, latest first
HomeFeatured == LatestFirst(BaseCandidates)

\* list(Job.objects.filter(...).values_list('category', flat=True).distinct()):
\* Job.Meta.ordering is ['-created_at'] and no order_by clears it, so the
\* query is SELECT DISTINCT category_id, created_at ... ORDER BY created_at
\* DESC: one row per (category, creation time), so a category comes once for
\* every job of it (creation times are distinct), latest first
HomeCategories ==
    [i \in 1..Len(HomeFeatured) |-> jobCategory[HomeFeatured[i]]]

\* featured_jobs.filter(category_id=category_id)[:2]
CategoryJobs(c) ==
    LET S == {j \in BaseCandidates : jobCategory[j] = c}
    IN  Take(LatestFirst(S), HomePerCategory)

\* the loop: diverse_jobs.extend(category_jobs) for every entry of the list
RECURSIVE Extended(_)
Extended(categories) ==
    IF categories = <<>> THEN <<>>
    ELSE CategoryJobs(Head(categories)) \o Extended(Tail(categories))

diverse_jobs == Extended(Take(HomeCategories, HomeCategoryCap))

\* featured_jobs = diverse_jobs[:8] if diverse_jobs else featured_jobs[:8]
anonymous_featured_jobs ==
    IF diverse_jobs # <<>> THEN Take(diverse_jobs, HomeLimit)
    ELSE Take(HomeFeatured, HomeLimit)

\* the home page is asked for by a visitor who is not logged in
HomeAnonymous ==
    /\ lastCall' = [op |-> "home", user |-> NoUser,
                    result |-> Ok(anonymous_featured_jobs)]
    /\ UNCHANGED <<workflowVars, profileVars, catalogVars, skillVars, infer, pageVars>>

\* the queryset of get_recommended_jobs when it is evaluated: the choice to
\* narrow by skill was made when the method ran, the rows are read now
RecommendedQuery(u, narrowed, limit) ==
    Take(Ordered(IF narrowed THEN Distinct(SkillJoin(u, BaseCandidates))
                 ELSE SetToBag(BaseCandidates)), limit)

\* a choice to narrow by skill that is made again when the list is read
HomeNarrowedLate(decided, u) == userSkills[u] # {}

\* the choice made by `if self.skills.exists():` inside get_recommended_jobs
HomeNarrowed(decided, u) == decided

\* line 30: featured_jobs = request.user.get_recommended_jobs(limit=8); for a
\* user with a location the call raises and the request ends
HomeRecommend(u) ==
    /\ home[u].pc = "idle"
    /\ IF userLocation[u] # EmptyText
       THEN /\ home' = [home EXCEPT ![u] = IdleHome]
            /\ lastCall' = [op |-> "home", user |-> u, result |-> Raise("NameError")]
       ELSE /\ home' = [home EXCEPT ![u] = [pc |-> "recommended",
                                           narrowed |-> userSkills[u] # {},
                                           inferred |-> FALSE]]
            /\ UNCHANGED lastCall
    /\ UNCHANGED <<workflowVars, profileVars, catalogVars, skillVars, infer,
                   helpfulRows, helpfulCount, marking>>

\* lines 50-51: if not request.user.skills.exists(): auto_detect_skills()
HomeInfer(u) ==
    LET names == detected_names(u) IN
    /\ home[u].pc = "recommended"
    /\ IF userSkills[u] = {}
       THEN /\ skillRows' = GetOrCreateSkills(skillRows, names)
            /\ userSkills' = [userSkills EXCEPT ![u] = SkillsAdd(@, names)]
            /\ home' = [home EXCEPT ![u].pc = "render", ![u].inferred = TRUE]
       ELSE /\ home' = [home EXCEPT ![u].pc = "render"]
            /\ UNCHANGED skillVars
    /\ UNCHANGED <<workflowVars, profileVars, catalogVars, infer,
                   helpfulRows, helpfulCount, marking, lastCall>>

\* line 93: the template goes through featured_jobs, which runs the query
HomeRender(u) ==
    /\ home[u].pc = "render"
    /\ lastCall' = [op |-> "home", user |-> u,
                    result |-> Ok(RecommendedQuery(u, HomeNarrowed(home[u].narrowed, u),
                                                   HomeLimit))]
    /\ home' = [home EXCEPT ![u].pc = "idle"]
    /\ UNCHANGED <<workflowVars, profileVars, catalogVars, skillVars, infer,
                   helpfulRows, helpfulCount, marking>>

\* two jobs of u1, whose categories, dates and status are drawn; u1 may have
\* picked a skill by hand; u2 has a location
InitHome ==
    /\ jobPoster = [j \in Jobs |-> "u1"]
    /\ jobStatus \in [Jobs -> {"published", "completed"}]
    /\ requiredWorkers = [j \in Jobs |-> 1]
    /\ apps = [p \in Jobs \X Users |-> NoApp]
    /\ reviews = {}
    /\ req = EmptyBag
    /\ isVerified = [u \in Users |-> FALSE]
    /\ filled = [u \in Users |-> IF u = "u2" THEN {"location"} ELSE {}]
    /\ jobsCompleted = [u \in Users |-> 0]
    /\ jobTitle = [j \in Jobs |-> IF j = "j1" THEN TitlePhoto ELSE TitleStage]
    /\ jobDescription = [j \in Jobs |-> DescPlain]
    /\ appExperience = [p \in Jobs \X Users |-> EmptyText]
    /\ userLocation = [u \in Users |-> IF u = "u2" THEN LocationMumbai ELSE EmptyText]
    /\ jobSkills = [j \in Jobs |-> IF j = "j1" THEN {SkillPhotography} ELSE {}]
    /\ jobEventDay \in [Jobs -> {-1, 1}]
    /\ jobUrgent = [j \in Jobs |-> FALSE]
    /\ jobCreatedAt = [j \in Jobs |-> JobRank(j)]
    /\ jobLocation = [j \in Jobs |-> JobLocationOf(j)]
    /\ jobCategory \in [Jobs -> {"c1", "c2"}]
    /\ skillRows = InitialSkills
    /\ \E m \in {{}, {SkillFoodService}} :
          userSkills = [u \in Users |-> IF u = "u1" THEN m ELSE {}]
    /\ infer = [i \in Invocations |-> IdleInvocation]
    /\ QuietPages
    /\ lastCall = NoCall

NextHome ==
    \/ HomeAnonymous
    \/ \E u \in Users : HomeRecommend(u)
    \/ \E u \in Users : HomeInfer(u)
    \/ \E u \in Users : HomeRender(u)
    \/ \E j \in Jobs, s \in {"published", "completed"} : JobAdminSetStatus(j, s)

SpecHome == InitHome /\ [][NextHome]_vars

\* how often a job of category c is in the list
ShownOfCategory(list, c) ==
    Cardinality({i \in 1..Len(list) : jobCategory[list[i]] = c})

\* C26, as claimed: the list shown to an anonymous visitor has published
\* upcoming jobs only, at most two jobs of a category and at most 8 jobs, and
\* when it has fewer than 8 jobs every category with a published upcoming
\* job has a job in it.
C26_AnonymousHome ==
    LET list == anonymous_featured_jobs IN
    /\ \A i \in 1..Len(list) : list[i] \in BaseCandidates
    /\ Len(list) <= HomeLimit
    /\ \A c \in {jobCategory[j] : j \in Jobs} : ShownOfCategory(list, c) <= HomePerCategory
    /\ Len(list) < HomeLimit =>
          \A j \in BaseCandidates : ShownOfCategory(list, jobCategory[j]) >= 1

\* C28: in a home request of a logged-in user, skills are inferred only when
\* the user holds none at that point and only after get_recommended_jobs has
\* made its choice about the skill filter; a request that inferred skills
\* shows the list not narrowed by skill, as the skills before inference give
\* it, and a request of a user who holds skills shows the list narrowed by
\* them.
C28_InferenceAfterRecommendation ==
    [][\A u \in Users :
          /\ userSkills'[u] # userSkills[u] =>
                /\ home[u].pc = "recommended"
                /\ userSkills[u] = {}
                /\ ~home[u].narrowed
                /\ home'[u].inferred
          /\ (home[u].pc = "render" /\ home'[u].pc = "idle") =>
                /\ lastCall'.user = u
                /\ home[u].inferred =>
                      lastCall'.result = Ok(Take(Ordered(SetToBag(BaseCandidates)), HomeLimit))
                /\ ~home[u].inferred =>
                      lastCall'.result = get_recommended_jobs(u, HomeLimit)]_vars

\* the request of u1 inferred Photography and showed both jobs; the next
\* request will show only the job that requires Photography
C28_Witness ==
    /\ home["u1"].pc = "idle"
    /\ home["u1"].inferred
    /\ lastCall = [op |-> "home", user |-> "u1", result |-> Ok(<<"j2", "j1">>)]
    /\ SkillPhotography \in userSkills["u1"]
    /\ get_recommended_jobs("u1", HomeLimit) = Ok(<<"j1">>)

====
